---- MODULE Spec2Model ----
(***************************************************************************)
(* Model of ph_switch_mb.calculator: render_results maps every input line  *)
(* through _convert_expression and _format_value.  Text is a sequence of   *)
(* one-character strings.  The two ph_units capabilities (parse_input and  *)
(* convert) are deterministic black boxes: their answer for an argument is *)
(* chosen the first time the argument is seen and remembered afterwards.   *)
(***************************************************************************)
EXTENDS Integers, Sequences, FiniteSets, TLC

(* ------------------------------ bounds --------------------------------- *)
\* tokens per generated input line (single-line specification)
MaxTokens == 6
\* lines per input and calls per session (session specification)
MaxLines == 2
MaxCalls == 2
\* characters of trailing punctuation appended in the punctuation specification
MaxPunct == 2
\* digits of a short conversion result, digits beyond the precision of a long
\* one, and the largest decimal exponent (formatting specification)
MaxDigits == 3
MaxTail == 2
MaxExp == 13

(* --------------------------- Python values ----------------------------- *)
None == <<"None">>
EmptyStr == <<>>

Whitespace == {" ", "\t"}
LowerLetters == {"t", "o", "a", "s", "m", "f"}
UpperLetters == {"T", "O", "A", "S", "M", "F"}
DigitChars == <<"0", "1", "2", "3", "4", "5", "6", "7", "8", "9">>
DigitSet == {DigitChars[i] : i \in 1..10}
\* the characters the regular expression class \w accepts
WordChars == LowerLetters \cup UpperLetters \cup DigitSet \cup {"_"}
\* mutant: the semicolon is not stripped
StripChars_no_semicolon == {".", ","}

\* the argument of str.rstrip in _convert_expression
StripChars == {".", ",", ";"}

\* str.lower on one character (re.IGNORECASE compares case-folded characters)
Lower(c) ==
  CASE c = "T" -> "t" [] c = "O" -> "o" [] c = "A" -> "a"
    [] c = "S" -> "s" [] c = "M" -> "m" [] c = "F" -> "f"
    [] OTHER -> c

RECURSIVE lstrip(_, _)
lstrip(s, chars) ==
  IF s = <<>> THEN s
  ELSE IF Head(s) \in chars THEN lstrip(Tail(s), chars) ELSE s

RECURSIVE rstrip(_, _)
rstrip(s, chars) ==
  IF s = <<>> THEN s
  ELSE IF s[Len(s)] \in chars THEN rstrip(SubSeq(s, 1, Len(s) - 1), chars) ELSE s

\* str.strip() with no argument: whitespace on both ends
strip(s) == rstrip(lstrip(s, Whitespace), Whitespace)

(* ------------------------ _CONNECTOR_PATTERN --------------------------- *)
\* \b at the gap before position p (1..Len(s)+1): exactly one neighbour is \w
WordBoundary(s, p) ==
  LET before == p > 1 /\ s[p - 1] \in WordChars
      after  == p <= Len(s) /\ s[p] \in WordChars
  IN  before # after

\* (?:to|as) with re.IGNORECASE at position k
ConnectorWordAt(s, k) ==
  /\ k >= 1
  /\ k + 1 <= Len(s)
  /\ <<Lower(s[k]), Lower(s[k + 1])>> \in {<<"t", "o">>, <<"a", "s">>}

\* mutant: the pattern without its \b anchors
ConnectorMatchAt_anywhere(s, k) == ConnectorWordAt(s, k)

ConnectorMatchAt(s, k) ==
  /\ ConnectorWordAt(s, k)
  /\ WordBoundary(s, k)
  /\ WordBoundary(s, k + 2)

\* leftmost match at or after position k; 0 when there is none
RECURSIVE ConnectorSearch(_, _)
ConnectorSearch(s, k) ==
  IF k + 1 > Len(s) THEN 0
  ELSE IF ConnectorMatchAt(s, k) THEN k
  ELSE ConnectorSearch(s, k + 1)

\* _CONNECTOR_PATTERN.split(expression, maxsplit=1)
ConnectorSplit(s) ==
  LET k == ConnectorSearch(s, 1)
  IN  IF k = 0 THEN <<s>>
      ELSE <<SubSeq(s, 1, k - 1), SubSeq(s, k + 2, Len(s))>>

(* ------------------------------ floats --------------------------------- *)
\* A float is nan, +-inf, or finite: d1.d2d3... * 10^exp with d1 # 0 and no
\* trailing zero digit; zero is the single digit 0 with exponent 0.
Finite(neg, digits, exp) == [kind |-> "finite", neg |-> neg, digits |-> digits, exp |-> exp]
NaN == [kind |-> "nan", neg |-> FALSE, digits |-> <<>>, exp |-> 0]
Inf(neg) == [kind |-> "inf", neg |-> neg, digits |-> <<>>, exp |-> 0]

DigitVal(c) == CHOOSE d \in 0..9 : DigitChars[d + 1] = c
DigitText(ds) == [i \in 1..Len(ds) |-> DigitChars[ds[i] + 1]]

RECURSIVE StripLeadingZeros(_)
StripLeadingZeros(ds) ==
  IF ds = <<>> THEN ds
  ELSE IF Head(ds) = 0 THEN StripLeadingZeros(Tail(ds)) ELSE ds

RECURSIVE StripTrailingZeros(_)
StripTrailingZeros(ds) ==
  IF ds = <<>> THEN ds
  ELSE IF ds[Len(ds)] = 0 THEN StripTrailingZeros(SubSeq(ds, 1, Len(ds) - 1)) ELSE ds

\* the decimal literals float() accepts: [sign] digits [. digits] | [sign] . digits
\* (surrounding whitespace is ignored)
FloatBody(text) ==
  LET s == strip(text)
  IN  IF s # <<>> /\ Head(s) \in {"+", "-"} THEN Tail(s) ELSE s

IsFloatLiteral(text) ==
  LET b == FloatBody(text)
      dots == {i \in 1..Len(b) : b[i] = "."}
  IN  /\ \A i \in 1..Len(b) : b[i] \in DigitSet \cup {"."}
      /\ Cardinality(dots) <= 1
      /\ \E i \in 1..Len(b) : b[i] \in DigitSet

\* float(text) for a literal float() accepts
FloatOf(text) ==
  LET s == strip(text)
      neg == s # <<>> /\ Head(s) = "-"
      b == FloatBody(text)
      dots == {i \in 1..Len(b) : b[i] = "."}
      dot == IF dots = {} THEN Len(b) + 1 ELSE CHOOSE i \in dots : TRUE
      ip == [i \in 1..(dot - 1) |-> DigitVal(b[i])]
      fp == [i \in 1..(Len(b) - dot) |-> DigitVal(b[dot + i])]
      all == ip \o fp
      sig == StripLeadingZeros(all)
      zeros == Len(all) - Len(sig)
  IN  IF sig = <<>> THEN Finite(neg, <<0>>, 0)
      ELSE Finite(neg, StripTrailingZeros(sig), Len(ip) - 1 - zeros)

(* ---------------------------- _format_value ---------------------------- *)
\* _FORMAT_SPEC = ",.12g": precision of the general format
Precision == 12

RECURSIVE NatText(_)
NatText(n) == IF n < 10 THEN <<DigitChars[n + 1]>> ELSE NatText(n \div 10) \o <<DigitChars[(n % 10) + 1]>>

\* add one to a digit string; <<carry, digits>>
RECURSIVE Increment(_)
Increment(ds) ==
  IF ds = <<>> THEN <<TRUE, <<>>>>
  ELSE LET n == Len(ds)
       IN  IF ds[n] < 9 THEN <<FALSE, [ds EXCEPT ![n] = ds[n] + 1]>>
           ELSE LET r == Increment(SubSeq(ds, 1, n - 1))
                IN  <<r[1], r[2] \o <<0>>>>

\* round a digit string to p significant digits, ties to even; <<digits, exp>>
RoundDigits(ds, exp, p) ==
  IF Len(ds) <= p THEN <<ds, exp>>
  ELSE LET head == SubSeq(ds, 1, p)
           next == ds[p + 1]
           rest == SubSeq(ds, p + 2, Len(ds))
           up   == \/ next > 5
                   \/ /\ next = 5
                      /\ \/ \E i \in 1..Len(rest) : rest[i] # 0
                         \/ head[p] % 2 = 1
           inc  == Increment(head)
       IN  IF ~up THEN <<head, exp>>
           ELSE IF inc[1] THEN <<<<1>> \o inc[2], exp + 1>>
           ELSE <<inc[2], exp>>

\* mutant: the format without its ',' option
GroupThousands_none(s) == s

\* the ',' option: a comma between groups of three integer digits
RECURSIVE GroupThousands(_)
GroupThousands(s) ==
  IF Len(s) <= 3 THEN s
  ELSE GroupThousands(SubSeq(s, 1, Len(s) - 3)) \o <<",">> \o SubSeq(s, Len(s) - 2, Len(s))

Zeros(n) == [i \in 1..n |-> 0]

\* format(value, ",.12g") for a finite value
GeneralFormat(value) ==
  LET r == RoundDigits(value.digits, value.exp, Precision)
      d0 == StripTrailingZeros(r[1])
      d == IF d0 = <<>> THEN <<0>> ELSE d0
      x == r[2]
      sign == IF value.neg THEN <<"-">> ELSE <<>>
      scientific ==
        DigitText(<<d[1]>>)
          \o (IF Len(d) > 1 THEN <<".">> \o DigitText(Tail(d)) ELSE <<>>)
          \o <<"e">> \o (IF x < 0 THEN <<"-">> ELSE <<"+">>)
          \o (LET a == IF x < 0 THEN 0 - x ELSE x
              IN  IF a < 10 THEN <<"0">> \o NatText(a) ELSE NatText(a))
      intdigits == IF x < 0 THEN <<0>>
                   ELSE IF Len(d) >= x + 1 THEN SubSeq(d, 1, x + 1)
                   ELSE d \o Zeros(x + 1 - Len(d))
      fracdigits == IF x < 0 THEN Zeros((0 - x) - 1) \o d
                    ELSE IF Len(d) > x + 1 THEN SubSeq(d, x + 2, Len(d))
                    ELSE <<>>
      fixed == GroupThousands(DigitText(intdigits))
                 \o (IF fracdigits = <<>> THEN <<>> ELSE <<".">> \o DigitText(fracdigits))
  IN  sign \o (IF x < -4 \/ x >= Precision THEN scientific ELSE fixed)

\* str(value) for nan and the infinities
StrNonFinite(value) ==
  IF value.kind = "nan" THEN <<"n", "a", "n">>
  ELSE IF value.neg THEN <<"-", "i", "n", "f">> ELSE <<"i", "n", "f">>

_format_value(value) ==
  IF value.kind = "nan" \/ value.kind = "inf" THEN StrNonFinite(value)
  ELSE LET formatted == GeneralFormat(value)
       IN  IF formatted # <<>> /\ formatted[Len(formatted)] = "."
           THEN SubSeq(formatted, 1, Len(formatted) - 1)
           ELSE formatted

(* ------------------- the ph_units capabilities (black boxes) ----------- *)
\* result kinds of a call
Unset == [kind |-> "unset", neg |-> FALSE, digits |-> <<>>, exp |-> 0]
NoResult == [kind |-> "None", neg |-> FALSE, digits |-> <<>>, exp |-> 0]

\* exception classes: ValueError and UnitTypeNameNotFound are named by the
\* first except clause of render_results, every other Exception by the second
NamedErrors == {"ValueError", "UnitTypeNameNotFound"}
ExceptionClasses == NamedErrors \cup {"Exception"}

UnitOrNone(u) == IF u = <<>> THEN None ELSE u

\* parse_input(text): a value text and a unit taken from the text (the text
\* cut at any place, either half trimmed, an empty unit reported as None),
\* an absent value text, or an exception
ParseOutcomes(text) ==
  {[raises |-> "", value_text |-> strip(SubSeq(text, 1, k)),
    source_unit |-> UnitOrNone(strip(SubSeq(text, k + 1, Len(text))))] : k \in 0..Len(text)}
  \cup {[raises |-> "", value_text |-> None, source_unit |-> UnitOrNone(strip(text))]}
  \cup {[raises |-> "Exception", value_text |-> None, source_unit |-> None]}

\* convert(value, source_unit, target_unit): a float (possibly nan or
\* infinite), None, UnitTypeNameNotFound, or any other exception
ConvertValues ==
  {Finite(FALSE, <<3, 0, 4, 8>>, 2), NaN, Inf(FALSE), Inf(TRUE)}

ConvertOutcomes ==
  {[raises |-> "", result |-> v] : v \in ConvertValues}
  \cup {[raises |-> "", result |-> NoResult]}
  \cup {[raises |-> e, result |-> Unset] : e \in ExceptionClasses}

(* ------------------------------- state --------------------------------- *)
VARIABLES
  pc,         \* position in render_results / _convert_expression
  lines,      \* the argument of the current call
  idx,        \* the for loop's position in lines
  outputs,    \* the list the call builds and returns
  local,      \* the locals of the current line's _convert_expression
  exc,        \* the exception in flight ("" when none)
  parseMemo,  \* parse_input's answers so far, by argument
  convMemo,   \* convert's answers so far, by argument
  calls,      \* how often each capability was invoked for the current line
  trace,      \* one record per finished line of the current call
  ncalls,     \* calls of render_results so far
  history,    \* <<lines, outputs>> of every call that returned
  text_view,     \* the string of the input text view (ToolbarApp._text_view)
  result_view,   \* the string of the output pane (ToolbarApp._result_view)
  panel_visible, \* ToolbarApp._panel.isVisible()
  handler,       \* "update" while _update_result_from_input runs, else "none"
  event          \* the last shell event the application handled

\* the state of the shell (ToolbarApp) and of render_results
appvars == <<text_view, result_view, panel_visible, handler, event>>
rendervars == <<pc, lines, idx, outputs, local, exc, parseMemo, convMemo, calls, trace, ncalls, history>>
vars == <<rendervars, appvars>>

FreshLocal ==
  [expression |-> <<>>, parts |-> <<>>, source_text |-> <<>>, target_text |-> <<>>,
   value_text |-> None, parsed_unit |-> None, source_unit |-> None, target_unit |-> None,
   numeric_value |-> Unset, result |-> Unset, value |-> Unset,
   raiser |-> ""]

NoCalls == [parse_input |-> 0, convert |-> 0]

Init ==
  /\ pc = "idle"
  /\ lines = <<>>
  /\ idx = 1
  /\ outputs = <<>>
  /\ local = FreshLocal
  /\ exc = ""
  /\ parseMemo = <<>>
  /\ convMemo = <<>>
  /\ calls = NoCalls
  /\ trace = <<>>
  /\ ncalls = 0
  /\ history = <<>>
  /\ text_view = <<>>
  /\ result_view = <<>>
  /\ panel_visible = FALSE
  /\ handler = "none"
  /\ event = [kind |-> "none", view |-> ""]

\* what the trace keeps of a finished line
Finished(output, error) ==
  [line |-> lines[idx], local |-> local, calls |-> calls, error |-> error, output |-> output]

(* ------------------------------ actions -------------------------------- *)
\* mutant: the list outlives the call (a shared default or module-level list)
NewOutputs_reused(old) == old

\* outputs: list[str] = []  (a fresh list for every call)
NewOutputs(old) == <<>>

\* render_results(input) is entered
Call(input) ==
  /\ pc \in {"idle", "returned"}
  /\ pc' = "for"
  /\ lines' = input
  /\ idx' = 1
  /\ outputs' = NewOutputs(outputs)
  /\ local' = FreshLocal
  /\ exc' = ""
  /\ calls' = NoCalls
  /\ trace' = <<>>
  /\ ncalls' = ncalls + 1
  /\ UNCHANGED <<parseMemo, convMemo, history>>

\* mutant: a blank line is skipped without an output
ForLine_skip_blank ==
  /\ pc = "for"
  /\ idx <= Len(lines)
  /\ LET expression == strip(lines[idx])
     IN  IF expression = <<>>
         THEN /\ idx' = idx + 1
              /\ UNCHANGED <<pc, local, outputs, trace>>
         ELSE /\ pc' = "split"
              /\ local' = [FreshLocal EXCEPT !.expression = expression]
              /\ UNCHANGED <<outputs, trace, idx>>
  /\ UNCHANGED <<lines, exc, parseMemo, convMemo, calls, ncalls, history, appvars>>

\* for line in lines: expression = line.strip(); a blank line appends ""
ForLine ==
  /\ pc = "for"
  /\ idx <= Len(lines)
  /\ LET expression == strip(lines[idx])
     IN  IF expression = <<>>
         THEN /\ outputs' = Append(outputs, EmptyStr)
              /\ trace' = Append(trace, Finished(EmptyStr, ""))
              /\ idx' = idx + 1
              /\ UNCHANGED <<pc, local>>
         ELSE /\ pc' = "split"
              /\ local' = [FreshLocal EXCEPT !.expression = expression]
              /\ UNCHANGED <<outputs, trace, idx>>
  /\ UNCHANGED <<lines, exc, parseMemo, convMemo, calls, ncalls, history, appvars>>

\* _convert_expression up to the call of parse_input
SplitExpression ==
  /\ pc = "split"
  /\ LET parts == ConnectorSplit(local.expression)
         source_text == strip(parts[1])
         target_text == IF Len(parts) = 2 THEN strip(parts[2]) ELSE <<>>
     IN  IF Len(parts) # 2
         THEN /\ local' = [local EXCEPT !.parts = parts]
              /\ exc' = "ValueError"
              /\ pc' = "except"
         ELSE /\ local' = [local EXCEPT !.parts = parts, !.source_text = source_text,
                                        !.target_text = target_text]
              /\ IF source_text = <<>> \/ target_text = <<>>
                 THEN exc' = "ValueError" /\ pc' = "except"
                 ELSE exc' = exc /\ pc' = "parse"
  /\ UNCHANGED <<lines, idx, outputs, parseMemo, convMemo, calls, trace, ncalls, history, appvars>>

\* value_text, source_unit = parse_input(source_text)
ParseInput ==
  /\ pc = "parse"
  /\ \E o \in ParseOutcomes(local.source_text) :
       /\ IF local.source_text \in DOMAIN parseMemo
          THEN o = parseMemo[local.source_text] /\ UNCHANGED parseMemo
          ELSE parseMemo' = (local.source_text :> o) @@ parseMemo
       /\ IF o.raises # ""
          THEN /\ exc' = o.raises
               /\ pc' = "except"
               /\ local' = [local EXCEPT !.raiser = "parse_input"]
          ELSE /\ local' = [local EXCEPT !.value_text = o.value_text,
                                         !.parsed_unit = o.source_unit,
                                         !.source_unit = o.source_unit]
               /\ pc' = "check"
               /\ UNCHANGED exc
  /\ calls' = [calls EXCEPT !.parse_input = @ + 1]
  /\ UNCHANGED <<lines, idx, outputs, convMemo, trace, ncalls, history, appvars>>

\* mutant: a value text float() rejects counts as zero
CheckQuantity_default_zero ==
  /\ pc = "check"
  /\ IF local.value_text = None \/ local.value_text = <<>> \/ local.source_unit = None
     THEN exc' = "ValueError" /\ pc' = "except" /\ UNCHANGED local
     ELSE LET source_unit == rstrip(local.source_unit, StripChars)
              target_text == rstrip(local.target_text, StripChars)
          IN  IF source_unit = <<>> \/ target_text = <<>>
              THEN /\ exc' = "ValueError" /\ pc' = "except"
                   /\ local' = [local EXCEPT !.source_unit = source_unit,
                                             !.target_unit = target_text]
              ELSE /\ local' = [local EXCEPT !.source_unit = source_unit,
                                             !.target_unit = target_text,
                                             !.numeric_value =
                                                IF IsFloatLiteral(local.value_text)
                                                THEN FloatOf(local.value_text)
                                                ELSE Finite(FALSE, <<0>>, 0)]
                   /\ pc' = "convert"
                   /\ UNCHANGED exc
  /\ UNCHANGED <<lines, idx, outputs, parseMemo, convMemo, calls, trace, ncalls, history, appvars>>

\* the checks between parse_input and convert, with both rstrip calls and float()
CheckQuantity ==
  /\ pc = "check"
  /\ IF local.value_text = None \/ local.value_text = <<>> \/ local.source_unit = None
     THEN exc' = "ValueError" /\ pc' = "except" /\ UNCHANGED local
     ELSE LET source_unit == rstrip(local.source_unit, StripChars)
              target_text == rstrip(local.target_text, StripChars)
          IN  IF source_unit = <<>> \/ target_text = <<>> \/ ~IsFloatLiteral(local.value_text)
              THEN /\ exc' = "ValueError" /\ pc' = "except"
                   /\ local' = [local EXCEPT !.source_unit = source_unit,
                                             !.target_unit = target_text]
              ELSE /\ local' = [local EXCEPT !.source_unit = source_unit,
                                             !.target_unit = target_text,
                                             !.numeric_value = FloatOf(local.value_text)]
                   /\ pc' = "convert"
                   /\ UNCHANGED exc
  /\ UNCHANGED <<lines, idx, outputs, parseMemo, convMemo, calls, trace, ncalls, history, appvars>>

ConvertArgs == <<local.numeric_value, local.source_unit, local.target_unit>>

\* result = convert(numeric_value, source_unit, target_text), the capability
\* answering with one of the given outcomes
ConvertFrom(outcomes) ==
  /\ pc = "convert"
  /\ \E o \in outcomes :
       /\ IF ConvertArgs \in DOMAIN convMemo
          THEN o = convMemo[ConvertArgs] /\ UNCHANGED convMemo
          ELSE convMemo' = (ConvertArgs :> o) @@ convMemo
       /\ IF o.raises # ""
          THEN /\ exc' = o.raises
               /\ pc' = "except"
               /\ local' = [local EXCEPT !.raiser = "convert"]
          ELSE /\ local' = [local EXCEPT !.result = o.result]
               /\ pc' = "result"
               /\ UNCHANGED exc
  /\ calls' = [calls EXCEPT !.convert = @ + 1]
  /\ UNCHANGED <<lines, idx, outputs, parseMemo, trace, ncalls, history, appvars>>

\* mutant: nan and the infinities are rejected like None
CheckResult_rejects_nonfinite ==
  /\ pc = "result"
  /\ IF local.result = NoResult \/ local.result.kind # "finite"
     THEN exc' = "ValueError" /\ pc' = "except" /\ UNCHANGED local
     ELSE /\ local' = [local EXCEPT !.value = local.result]
          /\ pc' = "format"
          /\ UNCHANGED exc
  /\ UNCHANGED <<lines, idx, outputs, parseMemo, convMemo, calls, trace, ncalls, history, appvars>>

Convert == ConvertFrom(ConvertOutcomes)

\* if result is None: raise ValueError; return float(result)
CheckResult ==
  /\ pc = "result"
  /\ IF local.result = NoResult
     THEN exc' = "ValueError" /\ pc' = "except" /\ UNCHANGED local
     ELSE /\ local' = [local EXCEPT !.value = local.result]
          /\ pc' = "format"
          /\ UNCHANGED exc
  /\ UNCHANGED <<lines, idx, outputs, parseMemo, convMemo, calls, trace, ncalls, history, appvars>>

\* mutant: only the first except clause
Caught_named_only(e) == e \in NamedErrors

\* the two except clauses of render_results: (ValueError, UnitTypeNameNotFound)
\* and Exception, the base of every class in ExceptionClasses
Caught(e) == e \in NamedErrors \/ e \in ExceptionClasses

\* mutant: break instead of continue
HandleError_break ==
  /\ pc = "except"
  /\ outputs' = Append(outputs, EmptyStr)
  /\ trace' = Append(trace, Finished(EmptyStr, exc))
  /\ idx' = Len(lines) + 1
  /\ exc' = ""
  /\ local' = FreshLocal
  /\ calls' = NoCalls
  /\ pc' = "for"
  /\ UNCHANGED <<lines, parseMemo, convMemo, ncalls, history, appvars>>

\* mutant: the handler shows the error instead of a blank
HandleError_message ==
  /\ pc = "except"
  /\ outputs' = Append(outputs, <<"e", "r", "r", "o", "r">>)
  /\ trace' = Append(trace, Finished(<<"e", "r", "r", "o", "r">>, exc))
  /\ idx' = idx + 1
  /\ exc' = ""
  /\ local' = FreshLocal
  /\ calls' = NoCalls
  /\ pc' = "for"
  /\ UNCHANGED <<lines, parseMemo, convMemo, ncalls, history, appvars>>

\* except ...: outputs.append(""); continue   (anything else leaves the call)
HandleError ==
  /\ pc = "except"
  /\ IF Caught(exc)
     THEN /\ outputs' = Append(outputs, EmptyStr)
          /\ trace' = Append(trace, Finished(EmptyStr, exc))
          /\ idx' = idx + 1
          /\ exc' = ""
          /\ local' = FreshLocal
          /\ calls' = NoCalls
          /\ pc' = "for"
     ELSE /\ pc' = "raised"
          /\ UNCHANGED <<outputs, trace, idx, exc, local, calls>>
  /\ UNCHANGED <<lines, parseMemo, convMemo, ncalls, history, appvars>>

\* mutant: the result is put in front of the list
AppendFormatted_prepend ==
  /\ pc = "format"
  /\ outputs' = <<_format_value(local.value)>> \o outputs
  /\ trace' = Append(trace, Finished(_format_value(local.value), ""))
  /\ idx' = idx + 1
  /\ local' = FreshLocal
  /\ calls' = NoCalls
  /\ pc' = "for"
  /\ UNCHANGED <<lines, exc, parseMemo, convMemo, ncalls, history, appvars>>

\* outputs.append(_format_value(value))
AppendFormatted ==
  /\ pc = "format"
  /\ outputs' = Append(outputs, _format_value(local.value))
  /\ trace' = Append(trace, Finished(_format_value(local.value), ""))
  /\ idx' = idx + 1
  /\ local' = FreshLocal
  /\ calls' = NoCalls
  /\ pc' = "for"
  /\ UNCHANGED <<lines, exc, parseMemo, convMemo, ncalls, history, appvars>>

\* return outputs
Return ==
  /\ pc = "for"
  /\ idx > Len(lines)
  /\ pc' = "returned"
  /\ history' = Append(history, [lines |-> lines, outputs |-> outputs])
  /\ UNCHANGED <<lines, idx, outputs, local, exc, parseMemo, convMemo, calls, trace, ncalls, appvars>>

(* ------------------------------- inputs -------------------------------- *)
Tokens == {<<" ">>, <<"t", "o">>, <<"A", "s">>, <<"5", "m">>, <<".">>}

RECURSIVE Flatten(_)
Flatten(ts) == IF ts = <<>> THEN <<>> ELSE Head(ts) \o Flatten(Tail(ts))

SeqsUpTo(S, n) == UNION {[1..k -> S] : k \in 0..n}

\* every line of at most MaxTokens tokens
RichLines == {Flatten(ts) : ts \in SeqsUpTo(Tokens, MaxTokens)}

\* blank, whitespace only, no connector, and conversions that differ in the
\* target, the connector's case and trailing punctuation
LinePool ==
  { <<>>,
    <<" ">>,
    <<"5", "m">>,
    <<"5", "m", " ", "t", "o", " ", "f">>,
    <<"5", "m", " ", "T", "O", " ", "m">>,
    <<"5", "m", ".", " ", "a", "s", " ", "f", ";">> }

SessionPool ==
  { <<"5", "m">>,
    <<"5", "m", " ", "t", "o", " ", "f">> }

\* runs of trailing punctuation of 0..MaxPunct characters
PunctRuns == SeqsUpTo({".", ",", ";"}, MaxPunct)

\* source texts, connectors and target texts of the punctuation pairs
PunctSources == {<<"5", "m">>, <<"5", "m", ",">>, <<"m">>}
PunctConnectors == {<<" ", "t", "o", " ">>, <<".", "A", "s", " ">>}
PunctTargets == {<<"f">>, <<"f", ".">>, <<>>}

\* finite results for the formatting specification: digit strings of up to
\* MaxDigits digits, and digit strings longer than the format's precision.
\* A long string stops short of an exact decimal tie at the thirteenth digit:
\* the binary float nearest such a decimal lies to one side of the tie.
FormatDigits == {0, 1, 5, 9}
ShortDigits ==
  {ds \in SeqsUpTo(FormatDigits, MaxDigits) :
     ds # <<>> /\ ds[1] # 0 /\ ds[Len(ds)] # 0}
LongDigits ==
  {[i \in 1..11 |-> a] \o <<b>> \o t :
     a \in {1, 9}, b \in {8, 9},
     t \in {ds \in SeqsUpTo({1, 4, 5, 6}, MaxTail) : ds # <<>> /\ ds # <<5>>}}
FormatValues ==
  {Finite(neg, ds, e) :
     neg \in BOOLEAN, ds \in ShortDigits \cup LongDigits, e \in (0 - MaxExp)..MaxExp}
  \cup {Finite(neg, <<0>>, 0) : neg \in BOOLEAN}
FormatOutcomes == {[raises |-> "", result |-> v] : v \in FormatValues}

(* ------------------------- the shell (ToolbarApp) ---------------------- *)
\* str.splitlines(): the line boundaries among the characters of the texts
LineBreaks == {"\n", "\r"}

RECURSIVE SplitLines(_)
SplitLines(s) ==
  LET brk == {i \in 1..Len(s) : s[i] \in LineBreaks}
  IN  IF s = <<>> THEN <<>>
      ELSE IF brk = {} THEN <<s>>
      ELSE LET i == CHOOSE k \in brk : \A m \in brk : k <= m
               j == IF s[i] = "\r" /\ i < Len(s) /\ s[i + 1] = "\n" THEN i + 1 ELSE i
           IN  <<SubSeq(s, 1, i - 1)>> \o SplitLines(SubSeq(s, j + 1, Len(s)))

\* sep.join(ss)
RECURSIVE JoinWith(_, _)
JoinWith(ss, sep) ==
  IF ss = <<>> THEN <<>>
  ELSE IF Len(ss) = 1 THEN ss[1]
  ELSE ss[1] \o sep \o JoinWith(Tail(ss), sep)

\* "\n".join(outputs)
JoinLines(ss) == JoinWith(ss, <<"\n">>)

\* the views a text-change notification can come from
InputView == "input"
Views == {InputView, "result"}

\* texts of the input view: lines of the session pool separated by "\n"; the
\* empty text and the one-line texts also with a line break at the end; the
\* two-line texts also with "\r\n" as separator
AppTexts ==
  {JoinWith(ls, <<"\n">>) : ls \in SeqsUpTo(SessionPool, MaxLines)}
  \cup {JoinWith(ls, <<"\n">>) \o <<"\n">> : ls \in SeqsUpTo(SessionPool, 1)}
  \cup {JoinWith(ls, <<"\r", "\n">>) : ls \in SeqsUpTo(SessionPool, 2) \ SeqsUpTo(SessionPool, 1)}

\* _update_result_from_input, up to its call of render_results on the lines
\* of the text (both views are set in __init__, so the early return is dead)
UpdateResultFromInput(text) ==
  /\ Call(SplitLines(text))
  /\ handler' = "update"

\* mutant: the observer's notification is dropped for every view
handle_text_change_ignored(view) ==
  UNCHANGED <<rendervars, handler>>

\* if text_view is not self._text_view: return; self._update_result_from_input()
handle_text_change(view) ==
  IF view # InputView THEN UNCHANGED <<rendervars, handler>>
  ELSE UpdateResultFromInput(text_view')

\* _TextChangeObserver.textDidChange_: a view's text was edited and the
\* observer hands the view to handle_text_change
TextDidChange ==
  /\ handler = "none"
  /\ \E view \in Views :
       /\ view = InputView => ncalls < MaxCalls
       /\ IF view = InputView THEN text_view' \in AppTexts ELSE text_view' = text_view
       /\ event' = [kind |-> "textDidChange", view |-> view]
       /\ handle_text_change(view)
  /\ UNCHANGED <<result_view, panel_visible>>

\* toggle_panel: hide a visible panel; show a hidden one and update the results
toggle_panel ==
  /\ handler = "none"
  /\ event' = [kind |-> "togglePanel", view |-> ""]
  /\ IF panel_visible
     THEN /\ panel_visible' = FALSE
          /\ UNCHANGED <<rendervars, handler>>
     ELSE /\ ncalls < MaxCalls
          /\ panel_visible' = TRUE
          /\ UpdateResultFromInput(text_view)
  /\ UNCHANGED <<text_view, result_view>>

\* self._result_view.setString_("\n".join(outputs)), once render_results returned
SetString ==
  /\ handler = "update"
  /\ pc = "returned"
  /\ result_view' = JoinLines(outputs)
  /\ handler' = "none"
  /\ UNCHANGED <<rendervars, text_view, panel_visible, event>>

(* -------------------------- specifications ----------------------------- *)
\* one call on one generated line
CallLine ==
  /\ ncalls < 1
  /\ \E l \in RichLines : Call(<<l>>)
  /\ UNCHANGED appvars

\* one call on up to MaxLines lines of the pool
CallLines ==
  /\ ncalls < 1
  /\ \E input \in SeqsUpTo(LinePool, MaxLines) : Call(input)
  /\ UNCHANGED appvars

\* one call on a line and the same line with punctuation appended to the
\* source text and to the target text
CallPunct ==
  /\ ncalls < 1
  /\ \E s \in PunctSources, c \in PunctConnectors, t \in PunctTargets,
        p \in PunctRuns, q \in PunctRuns :
       /\ p = <<>> \/ q = <<>> \/ p = q
       /\ Call(<<s \o c \o t, s \o p \o c \o t \o q>>)
  /\ UNCHANGED appvars

\* up to MaxCalls calls, one after the other
CallSession ==
  /\ ncalls < MaxCalls
  /\ \E input \in SeqsUpTo(SessionPool, MaxLines) : Call(input)
  /\ UNCHANGED appvars

\* one call on a line whose conversion may give any of the format values
CallFormat ==
  /\ ncalls < 1
  /\ Call(<<<<"5", "m", " ", "t", "o", " ", "f">>>>)
  /\ UNCHANGED appvars

ConvertFormat == ConvertFrom(FormatOutcomes)

Step ==
  \/ ForLine
  \/ SplitExpression
  \/ ParseInput
  \/ CheckQuantity
  \/ Convert
  \/ CheckResult
  \/ HandleError
  \/ AppendFormatted
  \/ Return

Next == CallLines \/ Step
Spec == Init /\ [][Next]_vars

NextLine == CallLine \/ Step
SpecLine == Init /\ [][NextLine]_vars

NextPunct == CallPunct \/ Step
SpecPunct == Init /\ [][NextPunct]_vars

NextSession == CallSession \/ Step
SpecSession == Init /\ [][NextSession]_vars

NextFormat ==
  \/ CallFormat
  \/ ForLine
  \/ SplitExpression
  \/ ParseInput
  \/ CheckQuantity
  \/ ConvertFormat
  \/ CheckResult
  \/ HandleError
  \/ AppendFormatted
  \/ Return
SpecFormat == Init /\ [][NextFormat]_vars

\* the shell's events and the steps of the calls they make
NextApp == TextDidChange \/ toggle_panel \/ SetString \/ Step
SpecApp == Init /\ [][NextApp]_vars

(* ------------------------------- claims -------------------------------- *)
Returned == pc = "returned"

\* a line of whitespace only (the empty line included)
IsBlank(line) == \A k \in 1..Len(line) : line[k] \in {" ", "\t"}

\* C1: a call that returned gave one output per input line, and the output at
\* position i is the one computed from the line at position i; while the loop
\* runs there is one output per line already consumed.
Thm_C1_LengthAndOrder ==
  /\ pc \in {"for", "split", "parse", "check", "convert", "result", "except", "format"}
       => Len(outputs) = idx - 1
  /\ Returned =>
       /\ Len(outputs) = Len(lines)
       /\ Len(trace) = Len(lines)
       /\ \A i \in 1..Len(lines) :
            /\ trace[i].line = lines[i]
            /\ outputs[i] = trace[i].output

\* a returned call on a blank line, a converted line, in that order
Wit_C1_BlankThenConverted ==
  /\ Returned
  /\ Len(lines) = 2
  /\ IsBlank(lines[1])
  /\ outputs[1] = <<>>
  /\ outputs[2] # <<>>

\* a finished line on which a capability raised or convert returned None
CapabilityFailed(r) ==
  \/ r.local.raiser \in {"parse_input", "convert"}
  \/ r.local.result = NoResult

\* C2: no exception leaves render_results, and a line on which parse_input or
\* convert raised (any class), or for which convert returned None, has the
\* empty string as its output.
Thm_C2_FailuresBlank ==
  /\ pc # "raised"
  /\ \A i \in 1..Len(trace) :
       CapabilityFailed(trace[i]) => i <= Len(outputs) /\ outputs[i] = <<>>

\* a returned call with a line on which convert raised an unnamed exception
\* and a line on which parse_input raised
Wit_C2_BothCapabilitiesRaised ==
  /\ Returned
  /\ \E i, j \in 1..Len(trace) :
       /\ trace[i].local.raiser = "convert"
       /\ trace[i].error = "Exception"
       /\ trace[j].local.raiser = "parse_input"
       /\ outputs[i] = <<>>
       /\ outputs[j] = <<>>

\* C3: two calls whose inputs agree at position i give the same output at
\* position i, and every position of an input has an output.
Thm_C3_LineIndependence ==
  \A a, b \in 1..Len(history) :
    \A i \in 1..Len(history[a].lines) :
      (i <= Len(history[b].lines) /\ history[a].lines[i] = history[b].lines[i])
        => /\ i <= Len(history[a].outputs)
           /\ i <= Len(history[b].outputs)
           /\ history[a].outputs[i] = history[b].outputs[i]

\* two calls that agree on a converted second line after different first
\* lines, one of them failing
Wit_C3_FailingNeighbour ==
  /\ Len(history) = 2
  /\ Len(history[1].lines) = 2
  /\ Len(history[2].lines) = 2
  /\ history[1].lines[1] # history[2].lines[1]
  /\ history[1].lines[2] = history[2].lines[2]
  /\ history[1].outputs[1] = <<>>
  /\ history[2].outputs[1] # <<>>
  /\ history[1].outputs[2] # <<>>

\* C8: a blank line that the loop has passed has the empty string as its
\* output and neither capability was invoked for it; no capability is ever
\* invoked while a blank line is the current one.
Thm_C8_BlankLines ==
  /\ \A i \in 1..Len(lines) :
       (i < idx /\ IsBlank(lines[i]))
         => /\ i <= Len(outputs)
            /\ outputs[i] = <<>>
            /\ trace[i].calls = [parse_input |-> 0, convert |-> 0]
  /\ (idx <= Len(lines) /\ IsBlank(lines[idx]))
       => calls = [parse_input |-> 0, convert |-> 0] /\ pc = "for"

\* a returned call with a line of whitespace only beside a converted line
Wit_C8_WhitespaceLine ==
  /\ Returned
  /\ \E i, j \in 1..Len(lines) :
       /\ lines[i] # <<>>
       /\ IsBlank(lines[i])
       /\ outputs[i] = <<>>
       /\ outputs[j] # <<>>

\* C10: two calls on the same input return the same outputs, whatever was
\* called in between.
Thm_C10_SameInputSameOutput ==
  \A a, b \in 1..Len(history) :
    history[a].lines = history[b].lines => history[a].outputs = history[b].outputs

\* the same non-empty input rendered twice with a converted line
Wit_C10_RenderedTwice ==
  /\ Len(history) = 2
  /\ history[1].lines = history[2].lines
  /\ history[1].lines # <<>>
  /\ \E i \in 1..Len(history[2].outputs) : history[2].outputs[i] # <<>>

\* the eight spellings of the connector
ConnectorSpellings ==
  {<<"t", "o">>, <<"t", "O">>, <<"T", "o">>, <<"T", "O">>,
   <<"a", "s">>, <<"a", "S">>, <<"A", "s">>, <<"A", "S">>}

\* "to" or "as" at position k of e, in any case, with no word character on
\* either side
WholeWordConnectorAt(e, k) ==
  /\ k >= 1
  /\ k + 1 <= Len(e)
  /\ <<e[k], e[k + 1]>> \in ConnectorSpellings
  /\ k = 1 \/ e[k - 1] \notin WordChars
  /\ k + 2 > Len(e) \/ e[k + 2] \notin WordChars

HasWholeWordConnector(e) == \E k \in 1..Len(e) : WholeWordConnectorAt(e, k)

\* parts is e cut at its first whole-word connector, or e alone when it has none
SplitAtFirstConnector(e, parts) ==
  IF HasWholeWordConnector(e)
  THEN /\ Len(parts) = 2
       /\ \E k \in 1..Len(e) :
            /\ WholeWordConnectorAt(e, k)
            /\ \A j \in 1..(k - 1) : ~WholeWordConnectorAt(e, j)
            /\ parts[1] = SubSeq(e, 1, k - 1)
            /\ parts[2] = SubSeq(e, k + 2, Len(e))
       /\ ~HasWholeWordConnector(parts[1])
  ELSE parts = <<e>>

\* C5: the expression is split at its first whole-word connector (any case)
\* and nowhere else: the source holds no whole-word connector, the target is
\* all that follows, and an expression without a whole-word connector is not
\* split.
Thm_C5_FirstWholeWordConnector ==
  /\ pc \in {"parse", "check", "convert", "result", "format", "except"}
       => /\ SplitAtFirstConnector(local.expression, local.parts)
          /\ Len(local.parts) = 2 =>
               /\ local.source_text = strip(local.parts[1])
               /\ local.target_text = strip(local.parts[2])
  /\ \A i \in 1..Len(trace) :
       trace[i].local.expression # <<>>
         => SplitAtFirstConnector(trace[i].local.expression, trace[i].local.parts)

\* an expression split at a capitalised connector whose target holds another
\* whole-word connector
Wit_C5_LaterConnectorInTarget ==
  /\ pc = "parse"
  /\ Len(local.parts) = 2
  /\ HasWholeWordConnector(local.parts[2])
  /\ \E k \in 1..Len(local.expression) :
       /\ WholeWordConnectorAt(local.expression, k)
       /\ local.expression[k] = "A"
       /\ Len(local.parts[1]) = k - 1

\* position of the first whole-word connector of e (0 when there is none)
FirstConnector(e) ==
  IF HasWholeWordConnector(e)
  THEN CHOOSE k \in 1..Len(e) :
         WholeWordConnectorAt(e, k) /\ \A j \in 1..(k - 1) : ~WholeWordConnectorAt(e, j)
  ELSE 0

\* a non-empty line without a connector word, or with nothing but whitespace
\* on one side of its first connector
Incomplete(line) ==
  LET e == strip(line)
      k == FirstConnector(e)
  IN  /\ line # <<>>
      /\ \/ k = 0
         \/ IsBlank(SubSeq(e, 1, k - 1))
         \/ IsBlank(SubSeq(e, k + 2, Len(e)))

\* C6: a non-empty line with no connector word, or with an empty side of its
\* first connector, has the empty string as its output.
Thm_C6_IncompleteBlank ==
  \A i \in 1..Len(lines) :
    (i < idx /\ Incomplete(lines[i])) => i <= Len(outputs) /\ outputs[i] = <<>>

\* a returned call on a line whose first connector has an empty target side
Wit_C6_EmptyTarget ==
  /\ Returned
  /\ Len(lines) = 1
  /\ Incomplete(lines[1])
  /\ FirstConnector(strip(lines[1])) > 1
  /\ ~IsBlank(SubSeq(strip(lines[1]), 1, FirstConnector(strip(lines[1])) - 1))
  /\ outputs = <<EmptyStr>>

\* parse_input was invoked for the line and returned
ParserReturned(r) == r.calls.parse_input = 1 /\ r.local.raiser # "parse_input"

\* what parse_input reported cannot be converted: no unit, no value text, or
\* a value text that is no floating-point literal
BadQuantity(l) ==
  \/ l.parsed_unit = None
  \/ l.value_text = None
  \/ l.value_text = <<>>
  \/ ~IsFloatLiteral(l.value_text)

\* the checks convert is called after
ChecksPassed(c, l) ==
  /\ c.parse_input = 1
  /\ ~BadQuantity(l)
  /\ l.source_unit \notin {None, EmptyStr}
  /\ l.target_unit \notin {None, EmptyStr}

\* C7: a line for which parse_input reports no unit, no value text, or a value
\* text float() rejects has the empty string as its output and convert is not
\* invoked for it; convert is invoked at most once per line and only after
\* every check has passed.
Thm_C7_ConvertOnlyAfterChecks ==
  /\ calls.parse_input <= 1
  /\ calls.convert <= 1
  /\ calls.convert = 1 => ChecksPassed(calls, local)
  /\ \A i \in 1..Len(trace) :
       /\ trace[i].calls.parse_input <= 1
       /\ trace[i].calls.convert <= 1
       /\ trace[i].calls.convert = 1 => ChecksPassed(trace[i].calls, trace[i].local)
       /\ (ParserReturned(trace[i]) /\ BadQuantity(trace[i].local))
            => /\ trace[i].calls.convert = 0
               /\ i <= Len(outputs)
               /\ outputs[i] = <<>>

\* a returned call on a line for which parse_input reported a unit and a value
\* text that is no number
Wit_C7_ValueNotANumber ==
  /\ Returned
  /\ \E i \in 1..Len(trace) :
       /\ ParserReturned(trace[i])
       /\ trace[i].local.parsed_unit # None
       /\ trace[i].local.value_text \notin {None, EmptyStr}
       /\ ~IsFloatLiteral(trace[i].local.value_text)
       /\ trace[i].calls.convert = 0
       /\ outputs[i] = <<>>

\* C9: a line for which convert returned nan or an infinity is no failure: its
\* output is "nan", "inf" or "-inf".
Thm_C9_NonFiniteText ==
  \A i \in 1..Len(trace) :
    LET r == trace[i].local.result
    IN  /\ r.kind = "nan" => trace[i].error = "" /\ outputs[i] = <<"n", "a", "n">>
        /\ (r.kind = "inf" /\ ~r.neg) => trace[i].error = "" /\ outputs[i] = <<"i", "n", "f">>
        /\ (r.kind = "inf" /\ r.neg) => trace[i].error = "" /\ outputs[i] = <<"-", "i", "n", "f">>

\* a returned call on a line for which convert returned minus infinity
Wit_C9_MinusInfinity ==
  /\ Returned
  /\ Len(trace) = 1
  /\ trace[1].local.result = Inf(TRUE)
  /\ trace[1].calls.convert = 1
  /\ outputs = <<<<"-", "i", "n", "f">>>>

\* b is a followed by zero or more of '.', ',' and ';'
PunctExtension(a, b) ==
  /\ Len(b) >= Len(a)
  /\ SubSeq(b, 1, Len(a)) = a
  /\ \A k \in (Len(a) + 1)..Len(b) : b[k] \in {".", ",", ";"}

\* convert was invoked for both lines with the same arguments, or for neither
SameConversion(r1, r2) ==
  /\ r1.calls.convert = r2.calls.convert
  /\ r1.calls.convert = 1 =>
       /\ r1.local.numeric_value = r2.local.numeric_value
       /\ r1.local.source_unit = r2.local.source_unit
       /\ r1.local.target_unit = r2.local.target_unit

\* C4: a line and the same line with '.', ',' or ';' appended have the same
\* output, and so have two lines whose parsed source units and whose target
\* texts differ only by such trailing characters (the value text being the
\* same); convert receives the same arguments for both.
Thm_C4_TrailingPunctuationIgnored ==
  \A i, j \in 1..Len(trace) :
    /\ PunctExtension(strip(lines[i]), strip(lines[j]))
         => outputs[i] = outputs[j] /\ SameConversion(trace[i], trace[j])
    /\ ( /\ ParserReturned(trace[i])
         /\ ParserReturned(trace[j])
         /\ trace[i].local.value_text = trace[j].local.value_text
         /\ trace[i].local.parsed_unit # None
         /\ trace[j].local.parsed_unit # None
         /\ PunctExtension(trace[i].local.parsed_unit, trace[j].local.parsed_unit)
         /\ PunctExtension(trace[i].local.target_text, trace[j].local.target_text) )
         => outputs[i] = outputs[j] /\ SameConversion(trace[i], trace[j])

\* a returned call on two converted lines, the second with a semicolon after
\* the parsed source unit and after the target
Wit_C4_PunctuatedConversion ==
  /\ Returned
  /\ Len(trace) = 2
  /\ trace[1].local.parsed_unit # None
  /\ trace[2].local.parsed_unit = trace[1].local.parsed_unit \o <<";">>
  /\ trace[2].local.target_text = trace[1].local.target_text \o <<";">>
  /\ trace[1].calls.convert = 1
  /\ trace[2].calls.convert = 1
  /\ outputs[1] = outputs[2]
  /\ outputs[1] # <<>>


\* reading a rendered number back: the text without its sign, split at "e"
\* into mantissa and exponent, the mantissa split at "." into integer and
\* fraction
Unsigned(o) == IF o # <<>> /\ Head(o) = "-" THEN Tail(o) ELSE o
IndexOf(c, s) == IF \E i \in 1..Len(s) : s[i] = c THEN CHOOSE i \in 1..Len(s) : s[i] = c ELSE Len(s) + 1
MantissaText(o) == SubSeq(Unsigned(o), 1, IndexOf("e", Unsigned(o)) - 1)
ExponentText(o) == SubSeq(Unsigned(o), IndexOf("e", Unsigned(o)) + 1, Len(Unsigned(o)))
IntegerText(o) == SubSeq(MantissaText(o), 1, IndexOf(".", MantissaText(o)) - 1)
FractionText(o) == SubSeq(MantissaText(o), IndexOf(".", MantissaText(o)) + 1, Len(MantissaText(o)))
NotComma(c) == c # ","
Ungrouped(s) == SelectSeq(s, NotComma)
IsDigits(s) == \A i \in 1..Len(s) : s[i] \in DigitSet

RECURSIVE NatOf(_)
NatOf(s) == IF s = <<>> THEN 0 ELSE 10 * NatOf(SubSeq(s, 1, Len(s) - 1)) + DigitVal(s[Len(s)])

\* the power of ten written after "e" (0 when there is none)
ExponentOf(o) ==
  LET x == ExponentText(o)
  IN  IF x = <<>> THEN 0
      ELSE IF Head(x) = "-" THEN 0 - NatOf(Tail(x)) ELSE NatOf(Tail(x))

\* the number a rendered text denotes
ReadBack(o) ==
  LET sign == IF o # <<>> /\ Head(o) = "-" THEN <<"-">> ELSE <<>>
      f == FloatOf(sign \o Ungrouped(MantissaText(o)))
  IN  IF f.digits = <<0>> THEN f ELSE [f EXCEPT !.exp = @ + ExponentOf(o)]

\* the significant digits a rendered text shows
SignificantDigits(o) ==
  StripLeadingZeros([i \in 1..Len(Ungrouped(IntegerText(o)) \o FractionText(o)) |->
                       DigitVal((Ungrouped(IntegerText(o)) \o FractionText(o))[i])])

\* commas stand exactly between groups of three integer digits
GroupedInThrees(s) ==
  /\ s # <<>>
  /\ s[1] \in DigitSet
  /\ \A i \in 1..Len(s) :
       IF (Len(s) - i + 1) % 4 = 0 THEN s[i] = "," ELSE s[i] \in DigitSet

\* a value of more than Precision digits cut to Precision digits, and the next
\* value of Precision digits above it in magnitude
CutDown(v) == Finite(v.neg, StripTrailingZeros(SubSeq(v.digits, 1, Precision)), v.exp)
CutUp(v) ==
  LET inc == Increment(SubSeq(v.digits, 1, Precision))
  IN  IF inc[1] THEN Finite(v.neg, <<1>>, v.exp + 1)
      ELSE Finite(v.neg, StripTrailingZeros(inc[2]), v.exp)

\* the digits of v beyond Precision amount to more than half a unit of the
\* last kept digit
AboveHalf(v) ==
  \/ v.digits[Precision + 1] > 5
  \/ /\ v.digits[Precision + 1] = 5
     /\ \E i \in (Precision + 2)..Len(v.digits) : v.digits[i] # 0
BelowHalf(v) == v.digits[Precision + 1] < 5

RenderedFinite(o, v) ==
  /\ o # <<>>
  /\ o[Len(o)] # "."
  /\ (Head(o) = "-") <=> v.neg
  /\ GroupedInThrees(IntegerText(o))
  /\ IsDigits(FractionText(o))
  /\ (\E i \in 1..Len(o) : o[i] = ".") => FractionText(o) # <<>>
  /\ Len(SignificantDigits(o)) <= Precision
  /\ IF Len(v.digits) <= Precision THEN ReadBack(o) = v
     ELSE /\ BelowHalf(v) => ReadBack(o) = CutDown(v)
          /\ AboveHalf(v) => ReadBack(o) = CutUp(v)
          /\ ReadBack(o) \in {CutDown(v), CutUp(v)}
  /\ IF ReadBack(o).exp < -4 \/ ReadBack(o).exp >= Precision
     THEN /\ ExponentText(o) # <<>>
          /\ Head(ExponentText(o)) \in {"+", "-"}
          /\ Len(ExponentText(o)) >= 3
          /\ IsDigits(Tail(ExponentText(o)))
          /\ Len(IntegerText(o)) = 1
     ELSE /\ ExponentText(o) = <<>>
          /\ \A i \in 1..Len(o) : o[i] # "e"

\* C11: a line whose conversion gave a finite result is rendered as that
\* result in general notation: commas between groups of three integer digits,
\* at most 12 significant digits, denoting the result rounded to 12 digits,
\* with an exponent exactly when the decimal exponent is below -4 or at least
\* 12; and the text never ends in ".".
Thm_C11_FiniteRendering ==
  \A i \in 1..Len(trace) :
    trace[i].local.result.kind = "finite" =>
      /\ trace[i].error = ""
      /\ RenderedFinite(outputs[i], trace[i].local.result)

\* a returned call whose conversion gave 111111.1111186, a result of more than
\* 12 digits, rendered grouped and rounded up
Wit_C11_GroupedAndRounded ==
  /\ Returned
  /\ Len(trace) = 1
  /\ trace[1].calls.convert = 1
  /\ trace[1].local.result = Finite(FALSE, <<1, 1, 1, 1, 1, 1, 1, 1, 1, 1, 1, 8, 6>>, 5)
  /\ outputs = <<<<"1", "1", "1", ",", "1", "1", "1", ".", "1", "1", "1", "1", "1", "9">>>>


\* no handler of the shell is running
Quiescent == handler = "none"

\* the output pane shows the joined outputs of the latest call of
\* render_results, that call was on the lines of the current input text, and
\* every call on these lines gave these outputs
PaneCurrent ==
  IF history = <<>> THEN text_view = <<>> /\ result_view = JoinLines(<<>>)
  ELSE /\ history[Len(history)].lines = SplitLines(text_view)
       /\ result_view = JoinLines(history[Len(history)].outputs)
       /\ \A h \in 1..Len(history) :
            history[h].lines = SplitLines(text_view) => result_view = JoinLines(history[h].outputs)

\* a step that handles a text-change notification of a view other than the
\* input view
ForeignNotification ==
  /\ handler = "none"
  /\ event'.kind = "textDidChange"
  /\ event'.view # InputView

\* C12: whenever the shell has finished handling its events (edits of the
\* input view, toggles of the panel), the output pane's text is the join with
\* "\n" of what render_results gives for the lines of the current input text,
\* never of an earlier text; and a text-change notification of another view
\* changes neither the pane nor starts an update.
Thm_C12_PaneFollowsInput ==
  /\ [](Quiescent => PaneCurrent)
  /\ [][ForeignNotification => (result_view' = result_view /\ handler' = handler)]_vars

\* after an edit, a second edit to a text of other lines, and a notification
\* of the result view: the pane shows the second edit's results, which differ
\* from the first's
Wit_C12_SecondEditShown ==
  /\ Quiescent
  /\ Len(history) = 2
  /\ history[1].lines # history[2].lines
  /\ Len(history[2].lines) = 2
  /\ result_view = JoinLines(history[2].outputs)
  /\ result_view # JoinLines(history[1].outputs)
  /\ \E i \in 1..Len(result_view) : result_view[i] = "\n"
  /\ event = [kind |-> "textDidChange", view |-> "result"]

====
